---------------------------- MODULE Spec2Model ----------------------------
(***************************************************************************)
(* A model of youchoose's Menu (src/src/lib.rs): the lazily filled item    *)
(* cache, the hover/scroll state machine, the selection bookkeeping and    *)
(* the render -> key -> dispatch loop of Menu::show.                       *)
(*                                                                         *)
(* A string is a sequence of one-character strings.  A Pair is a record    *)
(* [y, x]; a pane's bounds are a record [tl, br] of two Pairs.  The &mut   *)
(* self of the Rust methods is a record `m` holding the fields the methods *)
(* write; an action reads it from the variables (Self) and writes the      *)
(* result back (Commit).                                                   *)
(***************************************************************************)
EXTENDS Integers, Sequences, FiniteSets, TLC

VARIABLES
    source,           \* the elements the iterator will produce (their Display text)
    consumed,         \* how many elements iter.next() has handed out
    items,            \* state.items: the cache, a sequence of [repr, chosen]
    hover,            \* state.hover
    start,            \* state.start
    selection,        \* Menu.selection
    multiselect,      \* config.multiselect
    keys,             \* Menu.keys: [down, up, select, multiselect], sets of key codes
    title,            \* Menu.title: None or Some(text)
    side,             \* screen.side
    width,            \* screen.width, in hundredths
    bounds,           \* screen.bounds
    bounds_offset,    \* screen.bounds_offset: None or Some([tl, br])
    pos,              \* screen.pos
    writes,           \* the mvaddstr / mvaddch calls since the last erase: [y, x, s]
    items_on_screen,  \* screen.items_on_screen
    termSize,         \* what getmaxyx reports: [y, x]
    logOk,            \* whether choose.log can be opened for appending
    curses,           \* the terminal mode: "off" or "raw"
    pc,               \* "new", "running" (blocked in getch), "done", "panicked"
    result,           \* what show returned ("None" until it returns)
    shows,            \* how many times show has been called
    lastKey,          \* the key code the last turn of the loop read (0: none yet)
    input,            \* a scripted session: the key codes still to be typed
    fed,              \* a scripted session: the key codes typed so far
    preview,          \* Menu.preview: None, or Some([side, width]) of the preview pane
    box_screen,       \* preview.box_screen: a Screen record (None without a preview)
    prev_screen,      \* preview.screen: a Screen record (None without a preview)
    drawn,            \* the bounds each pane had when the last frame drew into it
    evals,            \* the source positions the preview function was applied to, in order
    call,             \* a method called directly: its name and arguments (NoCall in a session)
    ret               \* what that call did: Pending, None, Some(v), Ok(v) or Panicked

vars == <<source, consumed, items, hover, start, selection, multiselect, keys,
          title, side, width, bounds, bounds_offset, pos, writes, items_on_screen,
          termSize, logOk, curses, pc, result, shows, lastKey,
          input, fed, preview, box_screen, prev_screen, drawn, evals, call, ret>>

---------------------------------------------------------------------------
(* Bounds of the model. *)

MaxLen == 5
MaxRows == 4
\* hover has no upper limit in the code once it has passed the rendered rows;
\* the model follows it this far past them.
MaxOver == 2

(* Key codes. *)
KEY_DOWN == 258
KEY_UP == 259
KEY_J == 106
KEY_K == 107
KEY_ENTER == 10
KEY_SPACE == 32
KEY_ESC == 27
KEY_Q == 113
KEY_RESIZE == 410
KEY_X == 120
KEY_U == 117
KEY_S == 115

ScrollLimit == 1000000

NL == "\n"

Pair(y, x) == [y |-> y, x |-> x]

(* The outcome of a method: an Option, a value, or a panic. *)
NoCall == [op |-> "none"]
Pending == [is |-> "Pending"]
None == [is |-> "None"]
Some(v) == [is |-> "Some", v |-> v]
Ok(v) == [is |-> "Ok", v |-> v]
Panicked == [is |-> "Panic"]

---------------------------------------------------------------------------
(* Geometry: ScreenSide::get_bounds and ops::Not.  width is in hundredths; *)
(* (n as f64 * width) as i32 truncates the product.                        *)

MulWidth(n, w) == (n * w) \div 100

\* The widths whose f64 products the integer arithmetic above gives exactly,
\* for every n: 0.25, 0.5, 0.75 and 1.0 and their complements are binary
\* fractions.  (For others, such as 0.8, 1.0 - width is not the nearest f64
\* to the complement and the truncated product can be one less.)
ExactWidths == {25, 50, 75, 100}

\* get_bounds returning the terminal's corner for Full instead of the
\* rectangle it was given.
GetBoundsFullOrigin(sd, sb, w) ==
    CASE sd = "Top" ->
           [tl |-> sb.tl, br |-> Pair(MulWidth(sb.br.y, w), sb.br.x)]
      [] sd = "Bottom" ->
           [tl |-> Pair(MulWidth(sb.br.y - sb.tl.y, 100 - w) + 1, sb.tl.x),
            br |-> sb.br]
      [] sd = "Left" ->
           [tl |-> sb.tl,
            br |-> Pair(sb.br.y, sb.tl.x + MulWidth(sb.br.x - sb.tl.x, w))]
      [] sd = "Right" ->
           [tl |-> Pair(sb.tl.y, sb.tl.x + MulWidth(sb.br.x - sb.tl.x, 100 - w) + 1),
            br |-> sb.br]
      [] OTHER -> [tl |-> Pair(0, 0), br |-> sb.br]

GetBounds(sd, sb, w) ==
    CASE sd = "Top" ->
           [tl |-> sb.tl, br |-> Pair(MulWidth(sb.br.y, w), sb.br.x)]
      [] sd = "Bottom" ->
           [tl |-> Pair(MulWidth(sb.br.y - sb.tl.y, 100 - w) + 1, sb.tl.x),
            br |-> sb.br]
      [] sd = "Left" ->
           [tl |-> sb.tl,
            br |-> Pair(sb.br.y, sb.tl.x + MulWidth(sb.br.x - sb.tl.x, w))]
      [] sd = "Right" ->
           [tl |-> Pair(sb.tl.y, sb.tl.x + MulWidth(sb.br.x - sb.tl.x, 100 - w) + 1),
            br |-> sb.br]
      [] OTHER -> sb

Sides == {"Left", "Right", "Top", "Bottom", "Full"}

\* ops::Not for ScreenSide.
Not(sd) ==
    CASE sd = "Top" -> "Bottom"
      [] sd = "Bottom" -> "Top"
      [] sd = "Left" -> "Right"
      [] sd = "Right" -> "Left"
      [] OTHER -> "Full"

\* assert!(width > 0.0 && width <= 1.0) of Screen::new, Screen::set_pos and
\* get_bounds fails.
WidthRejected(w) == ~(w > 0 /\ w <= 100)

---------------------------------------------------------------------------
(* Screen: the bounded writer of the main pane. *)

\* The bounds of the whole terminal: (Pair {0,0}, Screen::get_size()).
TermBounds(sz) == [tl |-> Pair(0, 0), br |-> sz]

OffsetBounds(m) ==
    IF m.bounds_offset = None THEN m
    ELSE [m EXCEPT !.bounds =
            [tl |-> Pair(m.bounds.tl.y + m.bounds_offset.v.tl.y,
                         m.bounds.tl.x + m.bounds_offset.v.tl.x),
             br |-> Pair(m.bounds.br.y + m.bounds_offset.v.br.y,
                         m.bounds.br.x + m.bounds_offset.v.br.x)]]

ScreenShow(m, sz) ==
    OffsetBounds([m EXCEPT !.bounds = GetBounds(side, TermBounds(sz), width)])

ScreenRefresh(m, sz) ==
    OffsetBounds([m EXCEPT !.bounds = GetBounds(side, TermBounds(sz), width)])

\* Screen::erase on the main screen: curses erase() blanks the whole
\* terminal, the preview pane's part of it too.
ScreenErase(m, sz) ==
    LET e == [m EXCEPT !.writes = <<>>,
                       !.bounds = GetBounds(side, TermBounds(sz), width)]
    IN  IF preview = None THEN e
        ELSE [e EXCEPT !.box_screen.writes = <<>>, !.prev_screen.writes = <<>>]

\* Screen::new: the fields of a screen (side and width are kept apart).
NewScreen ==
    [bounds |-> [tl |-> Pair(0, 0), br |-> Pair(0, 0)], bounds_offset |-> None,
     pos |-> Pair(0, 0), writes |-> <<>>, items_on_screen |-> 0]

\* The offset Preview::new gives the content screen: one cell in from the
\* box on every side.
Inset == [tl |-> Pair(1, 1), br |-> Pair(-1, -1)]

\* Screen::show and Screen::refresh of a preview screen s.
PaneShow(s, sz) ==
    OffsetBounds([s EXCEPT !.bounds =
                    GetBounds(preview.v.side, TermBounds(sz), preview.v.width)])

\* Preview::show: box_screen.show(), screen.show().
PreviewShow(m, sz) ==
    [m EXCEPT !.box_screen = PaneShow(@, sz), !.prev_screen = PaneShow(@, sz)]

\* Preview::refresh: screen.refresh(), box_screen.refresh().
PreviewRefresh(m, sz) ==
    [m EXCEPT !.prev_screen = PaneShow(@, sz), !.box_screen = PaneShow(@, sz)]

MaxY(m) == m.bounds.br.y

MaxX(m) == m.bounds.br.x

ResetPos(m) ==
    LET o == OffsetBounds(m)
    IN  [o EXCEPT !.pos = Pair(o.bounds.tl.y, o.bounds.tl.x),
                  !.items_on_screen = 0]

\* addstr_clean: the string goes to the terminal at pos; pos.x moves right by
\* its length in characters.
AddStrClean(m, s) ==
    [m EXCEPT !.writes = Append(@, [y |-> m.pos.y, x |-> m.pos.x, s |-> s]),
              !.pos.x = @ + Len(s)]

\* The loop of Screen::addstr from character i on; cnt is char_counter, cur is
\* curr_string.  Returns the screen after the trailing addstr_clean.
RECURSIVE AddStrFrom(_, _, _, _, _)
AddStrFrom(m, s, i, cnt, cur) ==
    IF i > Len(s) THEN AddStrClean(m, cur)
    ELSE
      LET c == s[i]
          screen_width == m.bounds.br.x - m.bounds.tl.x
          both == cnt >= screen_width
          \* the wrap at the pane's right edge
          m1 == IF both
                THEN [AddStrClean(m, cur) EXCEPT !.pos =
                        Pair(m.pos.y + 1, m.bounds.tl.x)]
                ELSE m
          cnt1 == IF both THEN 0 ELSE cnt
          cur1 == IF both THEN <<>> ELSE cur
      IN  IF c = NL
          THEN LET m2 == [AddStrClean(m1, cur1) EXCEPT !.pos =
                            Pair(m1.pos.y + 1, m1.bounds.tl.x)]
                   m3 == IF both THEN [m2 EXCEPT !.pos.y = @ - 1] ELSE m2
               IN  AddStrFrom(m3, s, i + 1, 0, <<>>)
          ELSE IF m1.pos.y >= m1.bounds.br.y
               THEN AddStrClean(m1, <<>>)
               ELSE AddStrFrom(m1, s, i + 1, cnt1 + 1, Append(cur1, c))

AddStr(m, s) == AddStrFrom(m, s, 1, 0, <<>>)

\* Screen::addch(' ').
AddCh(m) ==
    [m EXCEPT !.writes = Append(@, [y |-> m.pos.y, x |-> m.pos.x, s |-> <<" ">>]),
              !.pos.x = @ + 1]

Skiplines(m, n) == [m EXCEPT !.pos = Pair(m.pos.y + n, m.bounds.tl.x)]

\* Item::icon: both default icons are one character long.
ItemIcon(item) == IF item.chosen THEN <<"*">> ELSE <<">">>

\* write_item without the test of the bottom edge.
WriteItemUnclipped(m, item, highlight) ==
    LET a == AddStr(m, ItemIcon(item))
        b == AddCh(a)
        c == AddStr(b, item.repr)
        d == [c EXCEPT !.items_on_screen = @ + 1]
    IN  [ok |-> TRUE, m |-> Skiplines(d, 1)]

\* Screen::write_item: [ok, m].
WriteItem(m, item, highlight) ==
    IF m.pos.y >= m.bounds.br.y THEN [ok |-> FALSE, m |-> m]
    ELSE LET a == AddStr(m, ItemIcon(item))
             b == AddCh(a)
             c == AddStr(b, item.repr)
             d == [c EXCEPT !.items_on_screen = @ + 1]
         IN  [ok |-> TRUE, m |-> Skiplines(d, 1)]

\* n copies of the one-character string c: c.repeat(n).
Repeat(c, n) == [k \in 1..n |-> c]

\* The label Screen::draw_box writes: the one given, or " preview ".
DefaultLabel == <<" ", "p", "r", "e", "v", "i", "e", "w", " ">>

LabelText(label) == IF label = None THEN DefaultLabel ELSE label.v

\* The two vertical lines of Screen::draw_box from row on, written with
\* mvaddstr directly.
RECURSIVE VertLines(_, _, _)
VertLines(m, b, row) ==
    IF row >= b.br.y THEN m
    ELSE VertLines(
           [m EXCEPT !.writes = @ \o
              <<[y |-> row, x |-> b.tl.x, s |-> <<"|">>],
                [y |-> row, x |-> b.br.x - 1, s |-> <<"|">>]>>],
           b, row + 1)

\* The two subtractions of Screen::draw_box on usize: box_width - label_len - 2
\* and box_width - 2.  Below zero the debug build panics on the overflow and
\* the release build asks str::repeat for close to 2^64 copies, which panics
\* with a capacity overflow; a negative width cast to usize ends the same way.
DrawBoxPanics(m, sd, w, label) ==
    LET b == GetBounds(sd, m.bounds, w)
        box_width == b.br.x - b.tl.x
    IN  box_width < Len(LabelText(label)) + 2

\* The glyphs of the box are written here as "+", "-" and "|": one character
\* each, like the corners, the horizontal and the vertical line of the code.
\* Screen::draw_box, when it does not panic.
DrawBox(m, sd, w, label) ==
    LET b == GetBounds(sd, m.bounds, w)
        box_width == b.br.x - b.tl.x
        label_len == Len(LabelText(label))
        t0 == [m EXCEPT !.pos = b.tl]
        t1 == AddStr(t0, <<"+">>)
        t2 == AddStr(t1, LabelText(label))
        t3 == AddStr(t2, Repeat("-", box_width - label_len - 2))
        t4 == AddStr(t3, <<"+">>)
        v == VertLines(t4, b, b.tl.y + 1)
        b0 == [v EXCEPT !.pos = Pair(b.br.y - 1, b.tl.x)]
        b1 == AddStr(b0, <<"+">>)
        b2 == AddStr(b1, Repeat("-", box_width - 2))
    IN  AddStr(b2, <<"+">>)

\* Screen::draw_box up to the first subtraction: the cursor is at the box's
\* top left and the corner and the label are written.
DrawBoxLabel(m, sd, w, label) ==
    LET b == GetBounds(sd, m.bounds, w)
        t0 == [m EXCEPT !.pos = b.tl]
        t1 == AddStr(t0, <<"+">>)
    IN  AddStr(t1, LabelText(label))

---------------------------------------------------------------------------
(* Menu: the record the methods work on. *)

Self ==
    [hover |-> hover, start |-> start, items |-> items, consumed |-> consumed,
     evals |-> evals, selection |-> selection, bounds |-> bounds, bounds_offset |-> bounds_offset,
     pos |-> pos, writes |-> writes, items_on_screen |-> items_on_screen,
     box_screen |-> box_screen, prev_screen |-> prev_screen, drawn |-> drawn]

Commit(m) ==
    /\ hover' = m.hover
    /\ start' = m.start
    /\ items' = m.items
    /\ consumed' = m.consumed
    /\ evals' = m.evals
    /\ selection' = m.selection
    /\ bounds' = m.bounds
    /\ bounds_offset' = m.bounds_offset
    /\ pos' = m.pos
    /\ writes' = m.writes
    /\ items_on_screen' = m.items_on_screen
    /\ box_screen' = m.box_screen
    /\ prev_screen' = m.prev_screen
    /\ drawn' = m.drawn

\* Item::new: the element's Display text, not chosen, no preview text yet.
NewItem(thing) == [repr |-> thing, chosen |-> FALSE, preview |-> None]

\* The preview function of the model: what func.eval returns for an element.
PreviewFunc(thing) == <<"p">> \o thing

\* Item::preview stores the text the preview function returns.
ItemPreview(item, thing) == [item EXCEPT !.preview = Some(PreviewFunc(thing))]

\* if let Some(preview) = &self.preview
HasPreview == preview # None

\* Item::select flips the chosen flag.
ItemSelect(item) == [item EXCEPT !.chosen = ~@]

\* The loop turn pushing the new item on the front of the cache.
PullItemFront(m) ==
    LET item == source[m.consumed + 1]
        new_item == IF HasPreview THEN ItemPreview(NewItem(item), item)
                    ELSE NewItem(item)
    IN  [m EXCEPT !.items = <<new_item>> \o @,
                  !.consumed = @ + 1,
                  !.evals = IF HasPreview THEN Append(@, m.consumed + 1) ELSE @]

\* One turn of the loop of Menu::yield_item when iter.next() is Some: the
\* element becomes an Item, with its preview text when a preview function is
\* configured, and is pushed on the cache.
PullItem(m) ==
    LET item == source[m.consumed + 1]
        new_item == IF HasPreview THEN ItemPreview(NewItem(item), item)
                    ELSE NewItem(item)
    IN  [m EXCEPT !.items = Append(@, new_item),
                  !.consumed = @ + 1,
                  !.evals = IF HasPreview THEN Append(@, m.consumed + 1) ELSE @]

\* The while loop of Menu::yield_item(i): pull from the iterator until the
\* cache holds index i or the iterator is exhausted.
RECURSIVE PullUntil(_, _)
PullUntil(m, i) ==
    IF Len(m.items) <= i /\ m.consumed < Len(source)
    THEN PullUntil(PullItem(m), i)
    ELSE m

\* yield_item calling iter.next() once before it looks at the cache.
YieldItemRefetch(m, i) ==
    PullUntil(IF m.consumed < Len(source) THEN PullItem(m) ELSE m, i)

\* yield_item pulling one element past the index asked for.
YieldItemEager(m, i) == PullUntil(m, i + 1)

\* Menu::yield_item(i), as it leaves the menu.
YieldItem(m, i) == PullUntil(m, i)

\* What Menu::yield_item(i) returns: Some(&items[i]), or None when the
\* iterator ran out first.
YieldResult(m, i) ==
    LET y == YieldItem(m, i)
    IN  IF i < Len(y.items) THEN Some(y.items[i + 1]) ELSE None

\* The write loop of Menu::refresh from cache index i on; p is the absolute
\* index of the highlighted item, whose preview text goes to the preview's
\* content screen.
RECURSIVE RenderFrom(_, _, _)
RenderFrom(m, i, p) ==
    IF i >= Len(m.items) THEN m
    ELSE LET w == WriteItem(m, m.items[i + 1], p = i)
             v == IF p = i /\ preview # None
                  THEN [w.m EXCEPT
                          !.prev_screen = AddStr(@, m.items[i + 1].preview.v),
                          !.drawn.content = Some(w.m.prev_screen.bounds)]
                  ELSE w.m
         IN  IF w.ok THEN RenderFrom(v, i + 1, p) ELSE m

\* The title's rows: title.len() / max_x + 1.
TitleHeight(m) == (Len(title.v) \div MaxX(m)) + 1

\* The block of Menu::refresh for a menu with a title: the title goes to the
\* terminal with the curses addstr (the cursor is at the origin after initscr
\* and after erase), the screens without an offset get the title's height as
\* theirs, and the preview's two screens are reset.
RefreshTitle(m) ==
    IF title = None THEN m
    ELSE
      LET h == TitleHeight(m)
          off == Some([tl |-> Pair(h, 0), br |-> Pair(0, 0)])
          a == [m EXCEPT !.writes = Append(@, [y |-> 0, x |-> 0, s |-> title.v]),
                         !.bounds_offset = IF @ = None THEN off ELSE @]
      IN  IF preview = None THEN a
          ELSE
            LET b == IF a.box_screen.bounds_offset = None
                     THEN [a EXCEPT
                             !.box_screen.bounds_offset = off,
                             !.prev_screen.bounds_offset =
                                IF @ # None /\ @.v.tl.y = 1
                                THEN Some([@.v EXCEPT !.tl.y = @ + h])
                                ELSE @]
                     ELSE a
            IN  [b EXCEPT !.prev_screen = ResetPos(@),
                          !.box_screen = ResetPos(@)]

\* What Menu::refresh does between yield_item and the write loop:
\* prev.draw_box() and prev.screen.reset_pos().  The box is drawn on the
\* preview's own box_screen, which nothing else in the frame reads or writes
\* before Preview::refresh: its glyphs are added in RefreshDrawBox below, and
\* here the frame's record of the bounds drawn into starts, with the bounds
\* draw_box uses.
RefreshBox(m) ==
    [m EXCEPT
       !.prev_screen = IF preview = None THEN @ ELSE ResetPos(@),
       !.drawn = [main |-> Some(m.bounds),
                  border |-> IF preview = None THEN None
                             ELSE Some(m.box_screen.bounds),
                  content |-> None]]

\* prev.draw_box(): Screen::draw_box(Full, 1.0, label) on the box_screen.
RefreshDrawBox(m) ==
    [m EXCEPT !.box_screen = DrawBox(@, "Full", 100, None)]

\* Menu::refresh panics: it divides by max_x when a title is set, and
\* draw_box panics on a box narrower than its label and corners.
RefreshPanics(m) ==
    \/ title # None /\ MaxX(m) = 0
    \/ /\ preview # None
       /\ DrawBoxPanics(RefreshTitle(m).box_screen, "Full", 100, None)

\* What a panicking Menu::refresh leaves behind.  The division by max_x comes
\* after addstr(title).  The subtraction in draw_box comes after the title
\* block, screen.reset_pos, yield_item(end) and the corner and label of the
\* box; prev.screen.reset_pos and the write loop are not reached.
RefreshPanicked(m) ==
    IF title # None /\ MaxX(m) = 0
    THEN [m EXCEPT !.writes = Append(@, [y |-> 0, x |-> 0, s |-> title.v])]
    ELSE LET r == ResetPos(RefreshTitle(m))
             end == r.start + MaxY(r)
             y == YieldItem(r, end)
         IN  [y EXCEPT !.box_screen = DrawBoxLabel(@, "Full", 100, None)]

\* refresh materializing the whole source before it draws.
RefreshPreload(m, sz) ==
    LET r == ResetPos(RefreshTitle(m))
        y == YieldItem(r, Len(source))
        b == RefreshBox(y)
        d == RenderFrom(b, b.start, b.hover + b.start)
        f == ScreenRefresh(d, sz)
    IN  IF preview = None THEN f ELSE PreviewRefresh(RefreshDrawBox(f), sz)

\* Menu::refresh.
Refresh(m, sz) ==
    LET r == ResetPos(RefreshTitle(m))
        end == r.start + MaxY(r)
        y == YieldItem(r, end)
        b == RefreshBox(y)
        d == RenderFrom(b, b.start, b.hover + b.start)
        f == ScreenRefresh(d, sz)
    IN  IF preview = None THEN f ELSE PreviewRefresh(RefreshDrawBox(f), sz)

\* select_item recording the row under the cursor instead of the absolute
\* index.
SelectItemHover(m) ==
    IF m.selection # <<>> /\ m.selection[Len(m.selection)] = m.start + m.hover
    THEN [ret |-> "Done", m |-> m]
    ELSE IF m.start + m.hover >= Len(m.items)
    THEN [ret |-> "Panic", m |-> m]
    ELSE [ret |-> "Done",
          m |-> [m EXCEPT !.items[m.start + m.hover + 1] = ItemSelect(@),
                          !.selection = Append(@, m.hover)]]

\* select_item without the test of the last entry of the selection.
SelectItemAlways(m) ==
    LET curr_item_idx == m.start + m.hover
    IN  IF curr_item_idx >= Len(m.items)
        THEN [ret |-> "Panic", m |-> m]
        ELSE [ret |-> "Done",
              m |-> [m EXCEPT !.items[curr_item_idx + 1] = ItemSelect(@),
                              !.selection = Append(@, curr_item_idx)]]

\* Menu::select_item: [ret, m], ret "Done" or "Panic" (the index is outside
\* the cache).
SelectItem(m) ==
    LET curr_item_idx == m.start + m.hover
    IN  IF Len(m.selection) > 0 /\ m.selection[Len(m.selection)] = curr_item_idx
        THEN [ret |-> "Done", m |-> m]
        ELSE IF curr_item_idx >= Len(m.items)
        THEN [ret |-> "Panic", m |-> m]
        ELSE [ret |-> "Done",
              m |-> [m EXCEPT !.items[curr_item_idx + 1] = ItemSelect(@),
                              !.selection = Append(@, curr_item_idx)]]

\* selection.iter().position(|x| *x == idx): the first place of idx, 1-based,
\* or 0 when it is absent.
Position(sel, idx) ==
    IF \E k \in 1..Len(sel) : sel[k] = idx
    THEN CHOOSE k \in 1..Len(sel) :
            sel[k] = idx /\ \A j \in 1..(k - 1) : sel[j] # idx
    ELSE 0

\* Vec::swap_remove(k): the last entry takes the place of entry k.
SwapRemove(sel, k) ==
    [j \in 1..(Len(sel) - 1) |-> IF j = k THEN sel[Len(sel)] ELSE sel[j]]

\* Vec::remove(k): the entries after k move up by one.
Remove(sel, k) == [j \in 1..(Len(sel) - 1) |-> IF j < k THEN sel[j] ELSE sel[j + 1]]

\* multiselect_item putting a newly chosen index in front of Selection.
MultiselectItemFront(m) ==
    LET curr_item_idx == m.start + m.hover
    IN  IF curr_item_idx >= Len(m.items)
        THEN [ret |-> "Panic", m |-> m]
        ELSE LET curr_item == ItemSelect(m.items[curr_item_idx + 1])
                 item_idx_pos == Position(m.selection, curr_item_idx)
                 m1 == [m EXCEPT !.items[curr_item_idx + 1] = curr_item]
             IN  [ret |-> "Pass",
                  m |-> IF curr_item.chosen /\ item_idx_pos = 0
                        THEN [m1 EXCEPT !.selection = <<curr_item_idx>> \o @]
                        ELSE IF ~curr_item.chosen /\ item_idx_pos # 0
                        THEN [m1 EXCEPT !.selection = Remove(@, item_idx_pos)]
                        ELSE m1]

\* Menu::multiselect_item: [ret, m], ret "Pass" or "Panic".
MultiselectItem(m) ==
    LET curr_item_idx == m.start + m.hover
    IN  IF curr_item_idx >= Len(m.items)
        THEN [ret |-> "Panic", m |-> m]
        ELSE LET curr_item == ItemSelect(m.items[curr_item_idx + 1])
                 item_idx_pos == Position(m.selection, curr_item_idx)
                 m1 == [m EXCEPT !.items[curr_item_idx + 1] = curr_item]
             IN  [ret |-> "Pass",
                  m |-> IF curr_item.chosen /\ item_idx_pos = 0
                        THEN [m1 EXCEPT !.selection = Append(@, curr_item_idx)]
                        ELSE IF ~curr_item.chosen /\ item_idx_pos # 0
                        THEN [m1 EXCEPT !.selection = Remove(@, item_idx_pos)]
                        ELSE m1]

\* Menu::scroll: [ret, m], ret "Pass" or "Panic" (the assertion fails).
Scroll(m, amount) ==
    LET m1 == [m EXCEPT !.start = @ + amount]
    IN  [ret |-> IF m1.start < ScrollLimit THEN "Pass" ELSE "Panic", m |-> m1]

\* A look-ahead threshold of one half instead of 0.67.
AboveLookaheadHalf(new_hover, num_items) == 2 * new_hover > num_items

\* new_hover > num_items * 0.67 and new_hover < num_items * 0.33 in f64.
AboveLookahead(new_hover, num_items) == 100 * new_hover > 67 * num_items

BelowLookahead(new_hover, num_items) == 100 * new_hover < 33 * num_items

\* move_selection scrolling the window without moving hover back.
MoveSelectionNoShift(m, amount) ==
    LET num_items == m.items_on_screen
        new_hover == m.hover + amount
    IN  IF new_hover < 0 \/ num_items = new_hover
        THEN [ret |-> "Pass", m |-> m]
        ELSE LET m1 == [m EXCEPT !.hover = new_hover]
             IN  IF /\ AboveLookahead(new_hover, num_items)
                    /\ m1.start + m1.items_on_screen < Len(m1.items)
                 THEN Scroll(m1, 1)
                 ELSE IF /\ BelowLookahead(new_hover, num_items)
                         /\ m1.start > 0
                         /\ amount < 0
                 THEN Scroll(m1, -1)
                 ELSE [ret |-> "Pass", m |-> m1]

\* Menu::move_selection: [ret, m].  The assertion of scroll fails before hover
\* is moved back.
MoveSelection(m, amount) ==
    LET num_items == m.items_on_screen
        new_hover == m.hover + amount
    IN  IF new_hover < 0 \/ num_items = new_hover
        THEN [ret |-> "Pass", m |-> m]
        ELSE LET m1 == [m EXCEPT !.hover = new_hover]
             IN  IF /\ AboveLookahead(new_hover, num_items)
                    /\ m1.start + m1.items_on_screen < Len(m1.items)
                 THEN LET s == Scroll(m1, 1)
                      IN  IF s.ret = "Panic" THEN s
                          ELSE [ret |-> s.ret, m |-> [s.m EXCEPT !.hover = @ - 1]]
                 ELSE IF /\ BelowLookahead(new_hover, num_items)
                         /\ m1.start > 0
                         /\ amount < 0
                 THEN LET s == Scroll(m1, -1)
                      IN  IF s.ret = "Panic" THEN s
                          ELSE [ret |-> s.ret, m |-> [s.m EXCEPT !.hover = @ + 1]]
                 ELSE [ret |-> "Pass", m |-> m1]

\* handle_key taking the toggle branch without looking at config.multiselect.
DispatchAnyMode(val) ==
    IF val \in keys.down THEN "down"
    ELSE IF val \in keys.up THEN "up"
    ELSE IF val \in keys.multiselect THEN "toggle"
    ELSE IF val \in keys.select THEN "select"
    ELSE "pass"

\* The branch of Menu::handle_key a key code takes.
Dispatch(val) ==
    IF val \in keys.down THEN "down"
    ELSE IF val \in keys.up THEN "up"
    ELSE IF multiselect /\ val \in keys.multiselect THEN "toggle"
    ELSE IF val \in keys.select THEN "select"
    ELSE "pass"

\* Menu::handle_key: [ret, m].
HandleKey(m, val) ==
    LET d == Dispatch(val)
    IN  CASE d = "down" -> MoveSelection(m, 1)
          [] d = "up" -> MoveSelection(m, -1)
          [] d = "toggle" -> MultiselectItem(m)
          [] d = "select" -> SelectItem(m)
          [] OTHER -> [ret |-> "Pass", m |-> m]

\* Quit keys that give way to a binding of the same code.
IsQuitUnbound(val) ==
    /\ val = KEY_ESC \/ val = KEY_Q
    /\ val \notin (keys.down \cup keys.up \cup keys.select \cup keys.multiselect)

\* The arm of the match in Menu::show a key code takes.
IsQuit(val) == val = KEY_ESC \/ val = KEY_Q

---------------------------------------------------------------------------
(* The configurations and inputs of the model. *)

Cols == 4

Short == <<"a">>

\* Sources of n one-line elements, n in lo..hi.
Sources(lo, hi) == UNION {[1..k -> {Short}] : k \in lo..hi}

TermSizes == {Pair(r, Cols) : r \in 1..MaxRows}

DefaultKeys ==
    [down |-> {KEY_DOWN, KEY_J}, up |-> {KEY_UP, KEY_K},
     select |-> {KEY_ENTER}, multiselect |-> {KEY_SPACE}]

\* The builders Menu::add_down_key, add_up_key, add_select_key and
\* add_multiselect_key: the key is pushed onto the action's list.
AddDownKey(ks, key) == [ks EXCEPT !.down = @ \cup {key}]

AddUpKey(ks, key) == [ks EXCEPT !.up = @ \cup {key}]

AddSelectKey(ks, key) == [ks EXCEPT !.select = @ \cup {key}]

AddMultiselectKey(ks, key) == [ks EXCEPT !.multiselect = @ \cup {key}]

\* add_down_key('q') and add_select_key(ESC) on top of the defaults.
CustomKeys == AddSelectKey(AddDownKey(DefaultKeys, KEY_Q), KEY_ESC)

\* add_up_key('u') and add_multiselect_key('s') on top of the defaults.
ExtraKeys == AddMultiselectKey(AddUpKey(DefaultKeys, KEY_U), KEY_S)

\* The bindings a menu is shown with.
KeyConfigs == {DefaultKeys, CustomKeys, ExtraKeys}

\* The keys the user types.
KeyCodes ==
    {KEY_DOWN, KEY_UP, KEY_ENTER, KEY_SPACE, KEY_ESC, KEY_Q, KEY_X, KEY_U,
     KEY_S}

---------------------------------------------------------------------------
(* The state after Menu::new and the builder calls. *)

InitWith(srcs, sizes, multis, scripts) ==
    /\ source \in srcs
    /\ consumed = 0
    /\ items = <<>>
    /\ hover = 0
    /\ start = 0
    /\ selection = <<>>
    /\ multiselect \in multis
    /\ keys \in KeyConfigs
    /\ title = None
    /\ bounds = [tl |-> Pair(0, 0), br |-> Pair(0, 0)]
    /\ bounds_offset = None
    /\ pos = Pair(0, 0)
    /\ writes = <<>>
    /\ items_on_screen = 0
    /\ termSize \in sizes
    /\ logOk \in BOOLEAN
    /\ curses = "off"
    /\ pc = "new"
    /\ result = "None"
    /\ shows = 0
    /\ lastKey = 0
    /\ input \in scripts
    /\ fed = <<>>
    /\ evals = <<>>
    /\ drawn = [main |-> None, border |-> None, content |-> None]
    /\ call = NoCall
    /\ ret = Pending

\* Menu::new alone: no preview, the main pane fills the terminal.
Plain ==
    /\ preview = None /\ side = "Full" /\ width = 50
    /\ box_screen = None /\ prev_screen = None

\* Menu::new(..).preview(f): the main pane on the left half, the preview pane
\* on the right half.
WithPreview ==
    /\ preview = Some([side |-> "Right", width |-> 50])
    /\ side = "Left" /\ width = 50
    /\ box_screen = NewScreen
    /\ prev_screen = [NewScreen EXCEPT !.bounds_offset = Some(Inset)]

\* The scripted sessions: [down, down, select] and
\* [toggle, down, toggle, down, toggle], in the default bindings; and
\* [toggle, select]: select pressed on the item just toggled.
DownDownSelect == <<KEY_DOWN, KEY_DOWN, KEY_ENTER>>
ToggleDownToggle == <<KEY_SPACE, KEY_DOWN, KEY_SPACE, KEY_DOWN, KEY_SPACE>>
ToggleSelect == <<KEY_SPACE, KEY_ENTER>>
Scripts == {DownDownSelect, ToggleDownToggle, ToggleSelect}

Init ==
    /\ InitWith(Sources(0, MaxLen), TermSizes, BOOLEAN, {<<>>} \cup Scripts)
    /\ Plain

Config == <<source, multiselect, keys, title, side, width, logOk, preview>>

\* The variables of a method called directly.
Direct == <<call, ret>>

\* Menu::show up to the first getch: init_curses, screen.show, log, refresh.
Show ==
    /\ pc = "new"
    /\ shows' = shows + 1
    /\ curses' = "raw"
    /\ result' = "None"
    /\ lastKey' = 0
    /\ LET m == ScreenShow(Self, termSize)
           s == IF preview = None THEN m ELSE PreviewShow(m, termSize)
       IN  IF ~logOk THEN Commit(s) /\ pc' = "panicked"
           ELSE IF RefreshPanics(s)
           THEN Commit(RefreshPanicked(s)) /\ pc' = "panicked"
           ELSE Commit(Refresh(s, termSize)) /\ pc' = "running"
    /\ UNCHANGED <<Config, Direct, termSize, input, fed>>

\* One turn of the loop of Menu::show on key code val with the terminal at
\* size sz: the quit arm, or erase, handle_key and (on Pass) refresh; on Done
\* or a quit key end_curses and finish.
Turn(val, sz) ==
    /\ lastKey' = val
    /\ IF IsQuit(val)
       THEN /\ Commit(Self)
            /\ pc' = "done"
            /\ curses' = "off"
            /\ result' = selection
       ELSE LET e == ScreenErase(Self, sz)
                h == HandleKey(e, val)
            IN  /\ h.m.hover > hover => h.m.hover <= items_on_screen + MaxOver
                /\ CASE h.ret = "Panic" ->
                          /\ Commit(h.m)
                          /\ pc' = "panicked"
                          /\ UNCHANGED <<curses, result>>
                     [] h.ret = "Pass" /\ RefreshPanics(h.m) ->
                          /\ Commit(RefreshPanicked(h.m))
                          /\ pc' = "panicked"
                          /\ UNCHANGED <<curses, result>>
                     [] h.ret = "Done" ->
                          /\ Commit(h.m)
                          /\ pc' = "done"
                          /\ curses' = "off"
                          /\ result' = h.m.selection
                     [] OTHER ->
                          /\ Commit(Refresh(h.m, sz))
                          /\ pc' = "running"
                          /\ UNCHANGED <<curses, result>>

\* getch returns a key the user pressed (in a session that is not scripted).
PressKey ==
    /\ pc = "running"
    /\ input = <<>> /\ fed = <<>>
    /\ \E val \in KeyCodes : Turn(val, termSize)
    /\ UNCHANGED <<Config, Direct, termSize, shows, input, fed>>

\* getch returns the next key of the script.
FeedKey ==
    /\ pc = "running"
    /\ input # <<>>
    /\ Turn(Head(input), termSize)
    /\ input' = Tail(input)
    /\ fed' = Append(fed, Head(input))
    /\ UNCHANGED <<Config, Direct, termSize, shows>>

\* The terminal is resized: getch returns KEY_RESIZE and getmaxyx reports the
\* new size from then on.
Resize ==
    /\ pc = "running"
    /\ input = <<>> /\ fed = <<>>
    /\ \E sz \in TermSizes \ {termSize} :
          /\ termSize' = sz
          /\ Turn(KEY_RESIZE, sz)
    /\ UNCHANGED <<Config, Direct, shows, input, fed>>

\* What the last turn of the loop did with the key it read.
LastAct ==
    IF lastKey = 0 THEN "show"
    ELSE IF IsQuit(lastKey) THEN "quit"
    ELSE IF lastKey = KEY_RESIZE THEN "resize"
    ELSE Dispatch(lastKey)

\* A session on a terminal that keeps its size.
Next == Show \/ PressKey \/ FeedKey

Spec == Init /\ [][Next]_vars

\* Single-select sessions on a terminal the user resizes.
InitResize ==
    /\ InitWith(Sources(0, MaxLen), TermSizes, {FALSE}, {<<>>})
    /\ Plain

NextResize == Show \/ PressKey \/ Resize

SpecResize == InitResize /\ [][NextResize]_vars

\* Single-select sessions on a terminal of ten rows, the list longer than the
\* pane.
MaxLenTen == 13

InitTen ==
    /\ InitWith(Sources(10, MaxLenTen), {Pair(10, Cols)}, {FALSE}, {<<>>})
    /\ Plain

NextTen == Show \/ PressKey

SpecTen == InitTen /\ [][NextTen]_vars

\* Single-select sessions on a menu whose show is called again after it
\* returned.
MaxShows == 2

\* Menu::show called on a menu whose earlier show returned: the same code
\* runs on the fields the earlier session left.
ShowAgain ==
    /\ pc = "done"
    /\ shows < MaxShows
    /\ shows' = shows + 1
    /\ curses' = "raw"
    /\ result' = "None"
    /\ lastKey' = 0
    /\ LET m == ScreenShow(Self, termSize)
           s == IF preview = None THEN m ELSE PreviewShow(m, termSize)
       IN  IF ~logOk THEN Commit(s) /\ pc' = "panicked"
           ELSE IF RefreshPanics(s)
           THEN Commit(RefreshPanicked(s)) /\ pc' = "panicked"
           ELSE Commit(Refresh(s, termSize)) /\ pc' = "running"
    /\ UNCHANGED <<Config, Direct, termSize, input, fed>>

InitAgain ==
    /\ InitWith(Sources(0, MaxLen), TermSizes, {FALSE}, {<<>>})
    /\ Plain

NextAgain == Show \/ PressKey \/ ShowAgain

SpecAgain == InitAgain /\ [][NextAgain]_vars

---------------------------------------------------------------------------
(* Menu::yield_item called directly, any index, any number of times, on the *)
(* menus Menu::new(0..k) and Menu::new(0..k).preview(f).                    *)

MaxIndex == 6

Digits == <<"0", "1", "2", "3", "4", "5", "6", "7", "8", "9">>

\* to_string of a usize.
RECURSIVE Decimal(_)
Decimal(n) ==
    IF n < 10 THEN <<Digits[n + 1]>>
    ELSE Decimal(n \div 10) \o <<Digits[(n % 10) + 1]>>

\* The ranges 0..k, k in lo..hi, as the Display texts of their elements.
Ranges(lo, hi) == {[i \in 1..k |-> Decimal(i - 1)] : k \in lo..hi}

\* The viewport and the screen, and the session loop: what a direct call of
\* yield_item leaves alone.
View ==
    <<hover, start, selection, bounds, bounds_offset, pos, writes,
      items_on_screen, box_screen, prev_screen, drawn>>

Loop == <<termSize, curses, pc, result, shows, lastKey, input, fed>>

InitYield ==
    /\ InitWith(Ranges(0, MaxLen), {Pair(1, Cols)}, {FALSE}, {<<>>})
    /\ keys = DefaultKeys /\ logOk
    /\ Plain \/ WithPreview

Yield ==
    /\ pc = "new"
    /\ \E i \in 0..MaxIndex :
          /\ call' = [op |-> "yield_item", i |-> i]
          /\ ret' = YieldResult(Self, i)
          /\ LET y == YieldItem(Self, i)
             IN  items' = y.items /\ consumed' = y.consumed /\ evals' = y.evals
    /\ UNCHANGED <<Config, View, Loop>>

NextYield == Yield

SpecYield == InitYield /\ [][NextYield]_vars

---------------------------------------------------------------------------
(* Screen::addstr called directly: any pane, the cursor anywhere in it or   *)
(* on its bottom edge, texts of distinct letters with and without a         *)
(* newline.                                                                 *)

MaxPaneW == 3
MaxPaneH == 2
MaxText == 5

Letters == <<"a", "b", "c", "d", "e", "f", "g", "h">>

\* The first k letters, and the same with a newline after the j-th.
Text(k) == SubSeq(Letters, 1, k)

TextNL(k, j) == SubSeq(Letters, 1, j) \o <<NL>> \o SubSeq(Letters, j + 1, k)

Texts ==
    {Text(k) : k \in 0..MaxText}
        \cup {TextNL(k, j) : k \in 1..MaxText, j \in 0..1}

\* The panes: a top-left corner on or next to the origin, at least one row
\* and one column.
Panes ==
    {[tl |-> Pair(o, o), br |-> Pair(o + h, o + w)] :
        o \in 0..1, h \in 1..MaxPaneH, w \in 1..MaxPaneW}

\* A screen with the given bounds and cursor and nothing written.
ScreenAt(b, p) ==
    [Self EXCEPT !.bounds = b, !.bounds_offset = None, !.pos = p,
                 !.writes = <<>>]

InitWrite ==
    /\ InitWith({<<>>}, {Pair(1, Cols)}, {FALSE}, {<<>>})
    /\ keys = DefaultKeys /\ logOk
    /\ Plain

Write ==
    /\ pc = "new" /\ call = NoCall
    /\ \E b \in Panes, s \in Texts :
          \E y \in b.tl.y..b.br.y, x \in b.tl.x..(b.br.x - 1) :
             LET a == AddStr(ScreenAt(b, Pair(y, x)), s)
             IN  /\ call' = [op |-> "addstr", bounds |-> b, pos |-> Pair(y, x),
                              s |-> s]
                 /\ ret' = Ok([pos |-> a.pos, writes |-> a.writes])
    /\ UNCHANGED <<Config, View, Loop, items, consumed, evals>>

NextWrite == Write

SpecWrite == InitWrite /\ [][NextWrite]_vars

---------------------------------------------------------------------------
(* Screen::draw_box called directly, as Preview::draw_box calls it (side    *)
(* Full, width 1.0), on boxes of any width from 0 on, with the default      *)
(* label, an empty one and a three-character one; and addstr as above.      *)

MaxBoxW == 12
MaxBoxH == 3

Labels == {None, Some(<<>>), Some(<<" ", "p", " ">>)}

Boxes ==
    {[tl |-> Pair(o, o), br |-> Pair(o + h, o + w)] :
        o \in 0..1, h \in 1..MaxBoxH, w \in 0..MaxBoxW}

Box ==
    /\ pc = "new" /\ call = NoCall
    /\ \E b \in Boxes, label \in Labels :
          LET m == ScreenAt(b, b.tl)
          IN  /\ call' = [op |-> "draw_box", bounds |-> b, label |-> label]
              /\ ret' = IF DrawBoxPanics(m, "Full", 100, label)
                        THEN Panicked
                        ELSE LET d == DrawBox(m, "Full", 100, label)
                             IN  Ok([pos |-> d.pos, writes |-> d.writes])
    /\ UNCHANGED <<Config, View, Loop, items, consumed, evals>>

NextBox == Box \/ Write

SpecBox == InitWrite /\ [][NextBox]_vars

---------------------------------------------------------------------------
(* Screen::write_item and Screen::addch called directly on a pane, the      *)
(* cursor on any row from the pane's top to its bottom edge and on any      *)
(* column of the pane, for items of every text above, chosen or not.        *)

DirectItems == {[NewItem(s) EXCEPT !.chosen = c] : s \in Texts, c \in BOOLEAN}

CallWriteItem ==
    /\ pc = "new" /\ call = NoCall
    /\ source = <<>> /\ ~multiselect /\ termSize = Pair(1, Cols)
    /\ \E b \in Panes, item \in DirectItems, highlight \in BOOLEAN :
          \E y \in b.tl.y..b.br.y, x \in b.tl.x..(b.br.x - 1) :
             LET w == WriteItem(ScreenAt(b, Pair(y, x)), item, highlight)
             IN  /\ call' = [op |-> "write_item", bounds |-> b,
                              pos |-> Pair(y, x), item |-> item,
                              highlight |-> highlight]
                 /\ ret' = Ok([ok |-> w.ok, pos |-> w.m.pos,
                               writes |-> w.m.writes,
                               items_on_screen |-> w.m.items_on_screen])
    /\ UNCHANGED <<Config, View, Loop, items, consumed, evals>>

CallAddCh ==
    /\ pc = "new" /\ call = NoCall
    /\ \E b \in Panes :
          \E y \in b.tl.y..(b.br.y - 1), x \in b.tl.x..(b.br.x - 1) :
             LET a == AddCh(ScreenAt(b, Pair(y, x)))
             IN  /\ call' = [op |-> "addch", bounds |-> b, pos |-> Pair(y, x)]
                 /\ ret' = Ok([pos |-> a.pos, writes |-> a.writes])
    /\ UNCHANGED <<Config, View, Loop, items, consumed, evals>>

NextItem == Write \/ CallAddCh \/ CallWriteItem

SpecItem == InitWrite /\ [][NextItem]_vars

\* Scripted sessions, on a list of at least one element, of a user who
\* presses the down key k times and then the up key as many times as the
\* longest list has items.
DownsThenUps(k) == Repeat(KEY_DOWN, k) \o Repeat(KEY_UP, MaxLen)

InitDown ==
    /\ InitWith(Sources(1, MaxLen), TermSizes, BOOLEAN,
                {DownsThenUps(k) : k \in 0..MaxLen})
    /\ logOk
    /\ Plain

NextDown == Show \/ FeedKey

SpecDown == InitDown /\ [][NextDown]_vars

\* The builder call Menu::title(text) on a menu that has none.
Titles == {<<"t">>, <<"t", "i", "t", "l", "e">>}

Title ==
    /\ pc = "new" /\ call = NoCall
    /\ title = None
    /\ \E text \in Titles : title' = Some(text)
    /\ UNCHANGED <<source, multiselect, keys, side, width, logOk, preview,
                   View, Loop, Direct, items, consumed, evals>>

\* Single-select sessions of menus with and without a title and a preview
\* pane, on terminals of Cols columns, where the preview's box has no room
\* for its label, and of WideCols columns, where it has; up to MaxRows rows,
\* and WideRows rows; the user resizes the terminal between these sizes.
WideCols == 24
WideRows == 6

PaneSizes ==
    {Pair(r, c) : r \in (1..MaxRows) \cup {WideRows}, c \in {Cols, WideCols}}

InitPanes ==
    /\ InitWith(Sources(0, MaxLen), PaneSizes, {FALSE}, {<<>>})
    /\ keys = DefaultKeys /\ logOk
    /\ Plain \/ WithPreview

\* The terminal is resized between the sizes of PaneSizes.
ResizePanes ==
    /\ pc = "running"
    /\ input = <<>> /\ fed = <<>>
    /\ \E sz \in PaneSizes \ {termSize} :
          /\ termSize' = sz
          /\ Turn(KEY_RESIZE, sz)
    /\ UNCHANGED <<Config, Direct, shows, input, fed>>

NextPanes == Title \/ Show \/ PressKey \/ ResizePanes

SpecPanes == InitPanes /\ [][NextPanes]_vars

\* Sessions without a script, in the default bindings, and write_item called
\* directly on a menu that was not shown.
InitRender ==
    /\ InitWith(Sources(0, MaxLen), TermSizes, BOOLEAN, {<<>>})
    /\ keys = DefaultKeys /\ logOk
    /\ Plain

RenderShow == call = NoCall /\ Show

NextRender == CallWriteItem \/ RenderShow \/ PressKey

SpecRender == InitRender /\ [][NextRender]_vars

---------------------------------------------------------------------------
(* The builder call Menu::preview_pos(side, width), on a menu with and      *)
(* without a preview, for every side and every width in hundredths from     *)
(* just below 0.0 to just above 1.0.                                        *)

MaxWidth == 101

\* Menu::preview_pos: the main screen's set_pos(!side, 1.0 - width), then the
\* expect on the preview, then the preview's set_pos(side, width); any of the
\* three can panic, and the menu, passed by value, is dropped.
PreviewPos ==
    /\ pc = "new" /\ call = NoCall
    /\ \E sd \in Sides, w \in -1..MaxWidth :
          /\ call' = [op |-> "preview_pos", side |-> sd, width |-> w,
                       had |-> HasPreview]
          /\ IF WidthRejected(100 - w) \/ ~HasPreview \/ WidthRejected(w)
             THEN /\ ret' = Panicked
                  /\ pc' = "panicked"
                  /\ UNCHANGED <<side, width, preview>>
             ELSE /\ ret' = Ok(sd)
                  /\ side' = Not(sd)
                  /\ width' = 100 - w
                  /\ preview' = Some([side |-> sd, width |-> w])
                  /\ pc' = pc
    /\ UNCHANGED <<source, multiselect, keys, title, logOk, View, items,
                   consumed, evals, termSize, curses, result, shows, lastKey,
                   input, fed>>

InitPos ==
    /\ InitWith({<<>>}, {Pair(1, Cols)}, {FALSE}, {<<>>})
    /\ keys = DefaultKeys /\ logOk
    /\ Plain \/ WithPreview

NextPos == PreviewPos

SpecPos == InitPos /\ [][NextPos]_vars

---------------------------------------------------------------------------
(* ScreenSide::get_bounds called directly and again on its result with      *)
(* (Full, 1.0): every rectangle with corners up to MaxRect, every side, the *)
(* exact widths and 0.0, which the assertion refuses.                       *)

MaxRect == 4

Rects ==
    {[tl |-> Pair(ty, tx), br |-> Pair(by, bx)] :
        ty \in 0..1, tx \in 0..1, by \in 1..MaxRect, bx \in 1..MaxRect}

Resolve ==
    /\ pc = "new" /\ call = NoCall
    /\ \E r \in Rects, sd \in Sides, w \in ExactWidths \cup {0} :
          /\ call' = [op |-> "get_bounds", rect |-> r, side |-> sd, width |-> w]
          /\ ret' = IF WidthRejected(w) THEN Panicked
                    ELSE LET first == GetBounds(sd, r, w)
                         IN  Ok([first |-> first,
                                 second |-> GetBounds("Full", first, 100)])
    /\ UNCHANGED <<Config, View, Loop, items, consumed, evals>>

NextGeom == Resolve

SpecGeom == InitWrite /\ [][NextGeom]_vars

\* Sessions on the menus Menu::new(0..k), whose elements all differ.
InitLazy ==
    /\ InitWith(Ranges(0, MaxLen), TermSizes, BOOLEAN, {<<>>})
    /\ Plain

NextLazy == Show \/ PressKey

SpecLazy == InitLazy /\ [][NextLazy]_vars

---------------------------------------------------------------------------
(* The vocabulary of the claims. *)

\* The cache length yield_item(n - 1) reaches from a shorter cache: n, or the
\* whole source when it has fewer elements.
Reach(n) == IF n < Len(source) THEN n ELSE Len(source)

\* The rows of the main pane, and the index Menu::refresh materializes up to.
PaneRows == bounds.br.y - bounds.tl.y

FrameEnd == start + bounds.br.y

\* The characters a list of terminal writes placed, in the order written.
RECURSIVE Placed(_)
Placed(ws) == IF ws = <<>> THEN <<>> ELSE Head(ws).s \o Placed(Tail(ws))

\* A text without its newlines.
RECURSIVE NoNewlines(_)
NoNewlines(s) ==
    IF s = <<>> THEN <<>>
    ELSE IF Head(s) = NL THEN NoNewlines(Tail(s))
    ELSE <<Head(s)>> \o NoNewlines(Tail(s))

IsPrefix(a, b) == Len(a) <= Len(b) /\ a = SubSeq(b, 1, Len(a))

\* A terminal write lies inside the pane b.
Inside(w, b) ==
    /\ b.tl.y <= w.y /\ w.y < b.br.y
    /\ b.tl.x <= w.x /\ w.x + Len(w.s) <= b.br.x

\* The absolute index of the highlighted item.
Highlighted == start + hover

Range(s) == {s[k] : k \in 1..Len(s)}

QuitKeys == {KEY_ESC, KEY_Q}

\* The step is a turn of the loop, taken from a running session, that
\* dispatched its key to act.
Took(act) == pc = "running" /\ LastAct' = act

---------------------------------------------------------------------------
(* C1: after any sequence of move(+1) and move(-1) calls, interleaved with  *)
(* render frames, hover is never negative and never exceeds                 *)
(* items_rendered_this_frame - 1.                                           *)
C1_HoverWithinRendered ==
    (pc = "running" /\ LastAct \in {"down", "up"})
        => (0 <= hover /\ hover <= items_on_screen - 1)

(* C2: in every state of a running session window_start >= 0 and the        *)
(* highlighted index window_start + hover references a realized cache       *)
(* entry, so select_item and multiselect_item never index outside the       *)
(* cache.                                                                   *)
C2_HighlightedInCache ==
    pc = "running" => (start >= 0 /\ Highlighted < Len(items))

(* C3: with ten items rendered, a move(+1) leaves window_start alone while  *)
(* the accepted new hover is at most 6 = floor(10 * 0.67), and raises       *)
(* window_start by exactly one (hover staying where it was) on every        *)
(* accepted move(+1) to a new hover above 6 while the source has items      *)
(* below the window.                                                        *)
C3_Hysteresis ==
    [][(Took("down") /\ items_on_screen = 10) =>
         LET new_hover == hover + 1
         IN  /\ (new_hover <= 6 => start' = start /\ hover' = new_hover)
             /\ (new_hover > 6 /\ new_hover < 10 /\ start + 10 < Len(source)
                   => start' = start + 1 /\ hover' = hover)
             /\ (new_hover > 6 /\ new_hover < 10 /\ start + 10 >= Len(source)
                   => start' = start /\ hover' = new_hover)]_vars

\* The first scroll: the seventh move(+1) from the top of a list longer than
\* the ten rows.
C3_Witness ==
    /\ pc = "running" /\ LastAct = "down"
    /\ items_on_screen = 10 /\ start = 1 /\ hover = 6

(* C4: every accepted move(delta) changes window_start + hover by exactly   *)
(* delta, whether it moves hover alone or also scrolls (a scroll shifts     *)
(* window_start by one and the new hover by one the other way); every       *)
(* rejected move leaves hover and window_start unchanged.  A move is        *)
(* rejected when the new hover is negative or equals the number of rendered *)
(* items.                                                                   *)
MoveContinuous(delta) ==
    LET new_hover == hover + delta
    IN  IF new_hover < 0 \/ new_hover = items_on_screen
        THEN hover' = hover /\ start' = start
        ELSE /\ start' + hover' = start + hover + delta
             /\ \E shift \in {-1, 0, 1} :
                   start' = start + shift /\ hover' = new_hover - shift

C4_Continuity ==
    [][/\ Took("down") => MoveContinuous(1)
       /\ Took("up") => MoveContinuous(-1)]_vars

\* A move that scrolled: the window has left the top and the highlight is
\* still inside the rendered rows.
C4_Witness ==
    /\ pc = "running" /\ LastAct \in {"down", "up"}
    /\ start > 0 /\ hover < items_on_screen

(* C5: in a single-select session whose Selection is empty, the select key  *)
(* pressed on a highlighted item appends that item's absolute index         *)
(* window_start + hover and ends the session, so show returns that          *)
(* one-element list; the keys [down, down, select] on a list with at least  *)
(* three rendered items return [2].                                         *)
C5_SingleSelect ==
    /\ []((~multiselect /\ fed = DownDownSelect /\ items_on_screen >= 3)
            => (pc = "done" /\ result = <<2>>))
    /\ [][(~multiselect /\ Took("select") /\ selection = <<>>
              /\ Highlighted < Len(items))
            => /\ pc' = "done"
               /\ selection' = <<Highlighted>>
               /\ result' = <<Highlighted>>]_vars

C5_Witness ==
    /\ ~multiselect /\ fed = DownDownSelect /\ items_on_screen >= 3
    /\ pc = "done" /\ result = <<2>>

\* The scripted multi-select session on the three items A, B, C, all rendered.
ThreeToggled ==
    /\ multiselect /\ fed = ToggleDownToggle
    /\ Len(source) = 3 /\ items_on_screen = 3

(* C6 as stated: after [toggle, down, toggle, down, toggle] on [A, B, C]    *)
(* from hover 0, Selection is [0, 2] and the session is still running.      *)
C6_Original ==
    ThreeToggled => (selection = <<0, 2>> /\ pc = "running")

(* C6 as amended: after [toggle, down, toggle, down, toggle] on [A, B, C]   *)
(* (all three rendered) from hover 0, Selection is [0, 1, 2], the three     *)
(* items are chosen, and the session is still running.                      *)
C6_Amended ==
    ThreeToggled =>
        /\ selection = <<0, 1, 2>>
        /\ \A i \in 1..3 : items[i].chosen
        /\ pc = "running"

C6_Witness == ThreeToggled /\ selection = <<0, 1, 2>> /\ pc = "running"

(* C7: in a multi-select session the toggle key flips the highlighted       *)
(* item's chosen flag and changes nothing else of the viewport or the       *)
(* cache; an item now chosen whose index is not in Selection is appended    *)
(* at the end, an item now unchosen whose index is in Selection has one     *)
(* occurrence removed with the order of the others kept; the session goes   *)
(* on.  A chosen item is always in Selection, so toggling an item outside   *)
(* Selection twice appends it and then removes that same entry.             *)
RemovedOne(before, after, idx) ==
    \E k \in 1..Len(before) :
        /\ before[k] = idx
        /\ after = SubSeq(before, 1, k - 1) \o SubSeq(before, k + 1, Len(before))

ToggleEffect ==
    LET idx == Highlighted
        was == items[idx + 1].chosen
        insel == idx \in Range(selection)
    IN  /\ pc' = "running"
        /\ hover' = hover /\ start' = start
        /\ consumed' = consumed
        /\ items' = [items EXCEPT ![idx + 1].chosen = ~was]
        /\ IF ~was /\ ~insel THEN selection' = Append(selection, idx)
           ELSE IF was /\ insel THEN RemovedOne(selection, selection', idx)
           ELSE selection' = selection

C7_Toggle ==
    /\ [](\A i \in 1..Len(items) : items[i].chosen => (i - 1) \in Range(selection))
    /\ [][(Took("toggle") /\ Highlighted < Len(items)) => ToggleEffect]_vars

\* The toggle key has just switched item 1 off, between the chosen items 0
\* and 2.
C7_Witness ==
    /\ multiselect /\ pc = "running" /\ LastAct = "toggle"
    /\ Highlighted = 1 /\ Len(items) >= 3 /\ ~items[2].chosen
    /\ selection = <<0, 2>>

(* C8: the Selection a multi-select session returns holds no index twice.   *)
C8_NoDuplicates ==
    (multiselect /\ pc = "done") =>
        \A j, k \in 1..Len(result) : j # k => result[j] # result[k]

(* C9: in multi-select mode the select key ends the session and show       *)
(* returns Selection as it was immediately before the key; the key adds no  *)
(* index, removes none and flips no chosen flag.                            *)
C9_SelectFinalizes ==
    [][(multiselect /\ Took("select") /\ pc' = "done")
         => (result' = selection /\ items' = items)]_vars

(* C10: ESC and q end the session whatever keys are bound to them, leaving  *)
(* hover, window_start, the chosen flags and Selection as they were, and    *)
(* show returns that Selection; a turn of the loop that ends the session    *)
(* read a quit key or a key dispatched to the select action.                *)
C10_QuitKeys ==
    [][pc = "running" =>
         /\ lastKey' \in QuitKeys =>
              /\ pc' = "done" /\ curses' = "off"
              /\ result' = selection
              /\ UNCHANGED <<hover, start, items, selection>>
         /\ pc' = "done" => (lastKey' \in QuitKeys \/ LastAct' = "select")]_vars

\* q, also bound to the down action, ended a session that had moved and
\* toggled.
C10_Witness ==
    /\ pc = "done" /\ lastKey = KEY_Q /\ KEY_Q \in keys.down
    /\ hover > 0 /\ result # <<>> /\ result = selection

(* C11: a second yield_item(i) for the same index returns the same item as  *)
(* the first, pulls nothing from the source and applies the preview         *)
(* function to nothing; a yield_item(i) for a cached index returns the      *)
(* cached entry and changes nothing; over any sequence of calls the preview *)
(* function has been applied exactly once to each materialized element, in  *)
(* the order of materialization, and each entry carries that text.          *)
C11_Idempotent ==
    /\ [](evals = IF HasPreview THEN [k \in 1..consumed |-> k] ELSE <<>>)
    /\ [](\A k \in 1..Len(items) :
            items[k].preview =
                IF HasPreview THEN Some(PreviewFunc(source[k])) ELSE None)
    /\ [][/\ (call.op = "yield_item" /\ call' = call)
               => (ret' = ret /\ UNCHANGED <<items, consumed, evals>>)
          /\ (call'.op = "yield_item" /\ call'.i < Len(items))
               => (ret' = Some(items[call'.i + 1])
                     /\ UNCHANGED <<items, consumed, evals>>)]_vars

\* Index 1 was asked for after index 3: four elements are cached, each
\* previewed once, and the call returned the cached entry.
C11_Witness ==
    /\ HasPreview /\ call = [op |-> "yield_item", i |-> 1]
    /\ Len(items) = 4 /\ evals = <<1, 2, 3, 4>>
    /\ ret = Some(items[2])

(* C12: after any sequence of render frames and key events the cache holds  *)
(* exactly the elements pulled from the source so far, entry i built from   *)
(* the i-th element of the source; every step leaves the entries already    *)
(* cached where they are with the text they had, and the count of elements  *)
(* pulled never goes back.                                                  *)
C12_CacheMirrors ==
    /\ [](/\ Len(items) = consumed
          /\ consumed <= Len(source)
          /\ \A k \in 1..Len(items) : items[k].repr = source[k])
    /\ [][/\ Len(items') >= Len(items)
          /\ consumed' >= consumed
          /\ \A k \in 1..Len(items) : items'[k].repr = items[k].repr]_vars

\* Three of five elements are cached after frames, a move and a toggle.
C12_Witness ==
    /\ pc = "running" /\ Len(source) = 5 /\ consumed = 3
    /\ items[3].repr = <<"2">> /\ selection = <<1>>

(* C13: yield_item(index) on a cache of len entries pulls exactly           *)
(* max(0, index + 1 - len) elements and returns the entry when the source   *)
(* still has that many; otherwise it returns None without an error, keeps   *)
(* the entries already cached, and every later call for that index or a     *)
(* larger one returns None too.                                             *)
C13_PullsAsNeeded ==
    [][call'.op = "yield_item" =>
         LET index == call'.i
             len == Len(items)
             need == IF index + 1 > len THEN index + 1 - len ELSE 0
         IN  /\ IF need <= Len(source) - consumed
                THEN /\ consumed' = consumed + need
                     /\ ret' = Some(items'[index + 1])
                ELSE /\ ret' = None
                     /\ SubSeq(items', 1, len) = items
             /\ (call.op = "yield_item" /\ ret = None /\ index >= call.i)
                   => ret' = None]_vars

\* Index 3 was asked of the three-element source after index 1: the third
\* element was pulled, the call returned None.
C13_Witness ==
    /\ call = [op |-> "yield_item", i |-> 3] /\ ret = None
    /\ Len(source) = 3 /\ Len(items) = 3

(* C14 as stated: after every render frame the cache holds at least         *)
(* min(source length, window_start + rows of the main pane) entries, and    *)
(* the total consumed from the source is at most window_start + pane        *)
(* bottom edge + 1.                                                         *)
C14_Original ==
    pc = "running" =>
        /\ Len(items) >= Reach(start + PaneRows)
        /\ consumed <= FrameEnd + 1

(* C14 as amended: after every render frame the cache holds at least        *)
(* min(source length, window_start + rows of the main pane) entries, and    *)
(* the frame pulled only what was missing up to index window_start + pane   *)
(* bottom edge: the total consumed after the frame is the larger of the     *)
(* total before it and min(source length, window_start + bottom edge + 1).  *)
C14_Amended ==
    /\ [](pc = "running" => Len(items) >= Reach(start + PaneRows))
    /\ [][pc' = "running" =>
            consumed' = IF FrameEnd' + 1 > consumed
                        THEN Reach(FrameEnd' + 1)
                        ELSE consumed]_vars

\* A frame drawn after the terminal shrank: more was consumed earlier than
\* this frame asks for, and part of the source is still unread.
C14_Witness ==
    /\ pc = "running" /\ LastAct = "resize"
    /\ consumed > FrameEnd + 1 /\ consumed < Len(source)

(* C15: whenever show has stopped running, by a quit key, by a terminating  *)
(* select or by a panic in the first render or in the loop, the terminal    *)
(* is back in the mode it had before show.                                  *)
C15_TerminalReleased ==
    pc \in {"done", "panicked"} => curses = "off"

\* addstr returned: the characters it placed are a prefix of the text
\* without its newlines, every character lies inside the pane, and characters
\* are missing only when the cursor reached the pane's bottom edge.
WrapsInside ==
    LET b == call.bounds
        ws == ret.v.writes
    IN  /\ ret.is = "Ok"
        /\ IsPrefix(Placed(ws), NoNewlines(call.s))
        /\ \A k \in 1..Len(ws) : ws[k].s # <<>> => Inside(ws[k], b)
        /\ Placed(ws) # NoNewlines(call.s) => ret.v.pos.y >= b.br.y

(* C16: addstr of a text wraps at the pane's right boundary: no character   *)
(* is placed outside the pane, the characters placed are the text's         *)
(* characters in order with none lost until the cursor reaches the pane's   *)
(* bottom edge, the rest is dropped without an error.                       *)
C16_Wraps ==
    call.op = "addstr" => WrapsInside

(* C17: for every region size, a box narrower than its label plus the two   *)
(* corners included, and every label, draw_box and write return normally:   *)
(* no panic and no arithmetic underflow.                                    *)
C17_NeverRaises ==
    call.op \in {"draw_box", "addstr"} => ret.is = "Ok"

(* C18: preview_pos(side, width) called after preview accepts every width   *)
(* of the range, 0.0 < width <= 1.0: the preview pane is on side with       *)
(* fraction width and the main pane on the complementary side with          *)
(* fraction 1 - width; a width below 0.0 or above 1.0 is refused when the   *)
(* call is made.                                                            *)
C18_PreviewPos ==
    (call.op = "preview_pos" /\ call.had) =>
        /\ (call.width > 0 /\ call.width <= 100) =>
              /\ ret.is = "Ok"
              /\ preview = Some([side |-> call.side, width |-> call.width])
              /\ side = Not(call.side)
              /\ width = 100 - call.width
        /\ (call.width < 0 \/ call.width > 100) => ret = Panicked

(* C19: for every rectangle, side and width in (0, 1], get_bounds followed  *)
(* by get_bounds(result, Full, 1.0) returns the result of the first call:   *)
(* Full returns the rectangle it is given, whatever the width.              *)
C19_RoundTrip ==
    (call.op = "get_bounds" /\ ret.is = "Ok") =>
        /\ ret.v.second = ret.v.first
        /\ call.side = "Full" => ret.v.first = call.rect

\* A Bottom pane, which differs from the rectangle it was cut from, came back
\* unchanged from (Full, 1.0).
C19_Witness ==
    /\ call.op = "get_bounds" /\ ret.is = "Ok"
    /\ call.side = "Bottom" /\ call.width = 25
    /\ ret.v.first # call.rect /\ ret.v.second = ret.v.first

(* C20: every call of show, a second call on the same menu included,        *)
(* begins with an empty item cache, hover = 0 and window_start = 0, and in  *)
(* single-select mode show returns a Selection of at most one element.      *)
C20_FreshSession ==
    /\ [][shows' = shows + 1 => (items = <<>> /\ hover = 0 /\ start = 0)]_vars
    /\ []((~multiselect /\ pc = "done") => Len(result) <= 1)

\* What a move by delta, accepted, does to the window: it scrolls up exactly
\* when the new hover is under a third of the rendered items, the window is
\* not at the top and the move goes up; it leaves the window alone in the
\* dead zone; it never moves the window against its own direction.
MoveScrolls(delta) ==
    LET new_hover == hover + delta
        n == items_on_screen
        accepted == new_hover >= 0 /\ new_hover # n
        scrolledUp == start' = start - 1 /\ hover' = new_hover + 1
    IN  accepted =>
          /\ scrolledUp <=> (100 * new_hover < 33 * n /\ start > 0 /\ delta < 0)
          /\ (33 * n <= 100 * new_hover /\ 100 * new_hover <= 67 * n)
                => start' = start
          /\ delta > 0 => start' >= start
          /\ delta < 0 => start' <= start

(* C21: an accepted move scrolls the window up (window_start - 1, hover     *)
(* + 1) exactly when new_hover < rendered * 0.33, window_start > 0 and the  *)
(* move is upward; an accepted move with new_hover between rendered * 0.33  *)
(* and rendered * 0.67 leaves window_start alone; a downward move never     *)
(* decreases window_start, an upward move never increases it, and           *)
(* window_start is never below 0.                                           *)
C21_UpwardHysteresis ==
    /\ [](start >= 0)
    /\ [][/\ Took("down") => MoveScrolls(1)
          /\ Took("up") => MoveScrolls(-1)]_vars

\* What write_item draws of an item when nothing is clipped.
ItemText(item) == ItemIcon(item) \o <<" ">> \o NoNewlines(item.repr)

\* The texts of the cache entries i .. j - 1 (0-based), one after the other.
RECURSIVE ItemTexts(_, _)
ItemTexts(i, j) ==
    IF i >= j THEN <<>> ELSE ItemText(items[i + 1]) \o ItemTexts(i + 1, j)

\* The writes of an icon: write_item makes one per item it draws.
IconWrites(ws) ==
    Cardinality({k \in 1..Len(ws) : ws[k].s \in {<<"*">>, <<">">>}})

\* The direct call of write_item: refused at or below the bottom edge,
\* otherwise the icon goes to the cursor, the item is counted and the cursor
\* ends at least one row down.
WriteItemEffect ==
    LET b == call.bounds
        p == call.pos
        r == ret.v
    IN  IF p.y >= b.br.y
        THEN ~r.ok /\ r.writes = <<>> /\ r.items_on_screen = 0 /\ r.pos = p
        ELSE /\ r.ok
             /\ r.items_on_screen = 1
             /\ r.pos.y >= p.y + 1
             /\ r.writes # <<>>
             /\ r.writes[1] = [y |-> p.y, x |-> p.x, s |-> ItemIcon(call.item)]
             /\ IsPrefix(Placed(r.writes), ItemText(call.item))

\* The frame on the terminal: the counted items are the drawn ones, and they
\* are the cache entries from start on, in order.
FrameDrawn ==
    /\ items_on_screen = IconWrites(writes)
    /\ start + items_on_screen <= Len(items)
    /\ Placed(writes) = ItemTexts(start, start + items_on_screen)

(* C22: write_item returns false, draws nothing and counts nothing when the *)
(* cursor row is at or beyond the pane's bottom edge, and otherwise draws   *)
(* the item, moves the cursor at least one row down and returns true; after *)
(* every frame items_on_screen is the number of items write_item drew in    *)
(* that frame, and what is drawn is the cache entries start ..              *)
(* start + items_on_screen - 1 in order.                                    *)
C22_WriteItemCounts ==
    /\ call.op = "write_item" => WriteItemEffect
    /\ pc = "running" => FrameDrawn

C22_Witness ==
    /\ pc = "running" /\ start > 0 /\ items_on_screen = MaxRows
    /\ \E k \in 1..Len(items) : items[k].chosen

(* C23: the bounded writer never draws outside its pane: every character    *)
(* that addstr, addch and write_item place lands on a row from the pane's   *)
(* top to above its bottom edge and on a column from its left to before its *)
(* right edge, for every text and every cursor position inside the pane the *)
(* call starts from, the left column or not.                                *)
C23_InsideRegion ==
    call.op \in {"addstr", "addch", "write_item"} =>
        \A k \in 1..Len(ret.v.writes) :
            ret.v.writes[k].s # <<>> => Inside(ret.v.writes[k], call.bounds)

\* The pane the terminal's rectangle resolves to for a side and a width, with
\* the offset off (None or Some) added once.
Resolved(sd, w, off) ==
    OffsetBounds([bounds |-> GetBounds(sd, TermBounds(termSize), w),
                  bounds_offset |-> off]).bounds

\* The frame drew into the main pane with the resolved bounds.
MainResolved == drawn.main = Some(Resolved(side, width, bounds_offset))

\* The frame drew the preview's box and its content with the resolved bounds.
PreviewResolved ==
    /\ drawn.border = Some(Resolved(preview.v.side, preview.v.width,
                                    box_screen.bounds_offset))
    /\ drawn.content # None =>
          drawn.content = Some(Resolved(preview.v.side, preview.v.width,
                                        prev_screen.bounds_offset))

(* C24: in every frame each pane is drawn into with the rectangle that the  *)
(* terminal's current rectangle resolves to for the pane's side and width,  *)
(* with the pane's offset added once: the main pane, the preview's border   *)
(* pane and the preview's content pane, with or without a title.            *)
C24_ResolvedOnce ==
    pc = "running" =>
        /\ MainResolved
        /\ preview # None => PreviewResolved

\* The rectangles the panes of the menu have between two frames: each is
\* what Screen::refresh resolved, with the pane's offset added.
PaneRects ==
    {bounds} \cup (IF preview = None THEN {}
                   ELSE {box_screen.bounds, prev_screen.bounds})

\* top-left <= bottom-right, component-wise.
Ordered(r) == r.tl.y <= r.br.y /\ r.tl.x <= r.br.x

\* The rectangle r lies inside the rectangle sb.
Within(r, sb) ==
    /\ sb.tl.y <= r.tl.y /\ r.br.y <= sb.br.y
    /\ sb.tl.x <= r.tl.x /\ r.br.x <= sb.br.x

(* C25: every rectangle a pane gets has its top-left corner at or before    *)
(* its bottom-right corner in both components and lies inside the terminal  *)
(* rectangle it was resolved from, also after the pane's offsets (the       *)
(* title's rows, the inset of the preview's content pane) are added.        *)
C25_OrderedInside ==
    pc = "running" =>
        \A r \in PaneRects : Ordered(r) /\ Within(r, TermBounds(termSize))

(* C26: the select key pressed while the highlighted absolute index is the  *)
(* last entry of Selection ends the session and leaves Selection, every     *)
(* chosen flag, hover and window_start as they were: no second copy of the  *)
(* index is appended, and show returns that Selection.                      *)
C26_RePress ==
    [][(/\ Took("select")
        /\ selection # <<>>
        /\ selection[Len(selection)] = Highlighted)
         => /\ pc' = "done"
            /\ result' = selection
            /\ UNCHANGED <<hover, start, items, selection>>]_vars

C26_Witness ==
    /\ multiselect /\ fed = ToggleSelect
    /\ pc = "done" /\ result = <<0>> /\ items[1].chosen

(* C27: every item is reachable: in a pane that renders at least one item   *)
(* per frame (also one that renders only 1, 2 or 3), for every index i      *)
(* below the length of the source a run of down keys brings the highlight   *)
(* to start + hover = i; and from every state such a run reaches, enough up *)
(* keys bring the menu back to start = 0 and hover = 0.  A down key moves   *)
(* the highlight by one or leaves the menu as it is, so index i is reached  *)
(* by down keys exactly when the first i of them reach it.                  *)
C27_EveryItemReachable ==
    pc = "running" =>
        /\ (Range(fed) \subseteq {KEY_DOWN} /\ Len(fed) < Len(source))
              => Highlighted = Len(fed)
        /\ input = <<>> => (start = 0 /\ hover = 0)

\* The chosen flags of the cache are the ones it had (the cache may have
\* grown).
SameFlags ==
    /\ Len(items') >= Len(items)
    /\ \A i \in 1..Len(items) : items'[i].chosen = items[i].chosen

(* C28: while a multi-select session is running an item's chosen flag is    *)
(* true exactly when its index is in Selection; and in a single-select      *)
(* session the toggle key and every key bound to no action leave hover,     *)
(* window_start, every chosen flag and Selection as they were.              *)
C28_FlagsMatchSelection ==
    /\ []((multiselect /\ pc = "running") =>
            \A i \in 1..Len(items) :
                items[i].chosen <=> (i - 1) \in Range(selection))
    /\ [][(/\ ~multiselect /\ pc = "running"
            /\ (lastKey' \in keys.multiselect \/ LastAct' = "pass"))
             => /\ UNCHANGED <<hover, start, selection>>
                /\ SameFlags]_vars

\* Item 0 was switched on and, after item 1, off again.
C28_Witness ==
    /\ multiselect /\ pc = "running" /\ LastAct = "toggle"
    /\ Highlighted = 0 /\ Len(items) >= 2
    /\ ~items[1].chosen /\ items[2].chosen
    /\ selection = <<1>>

====
